---- MODULE Spec2Model ----
(***************************************************************************)
(* Calendar diary: the localStorage repository (storage.js), the tag       *)
(* cascade (tags.js), the diary editor with its debounced auto-save        *)
(* (diary.js, app.js) and the search pipeline (search.js).                 *)
(*                                                                         *)
(* Representation.                                                         *)
(*  - A JS string used as text (title, content, keyword) is a sequence of  *)
(*    one-character strings; a date string "YYYY-MM-DD" is a sequence of   *)
(*    character codes (digits 0..9, and -1 for '-', which sorts below the  *)
(*    digits as U+002D does below U+0030).                                 *)
(*  - A JS object used as a map (the entries document) is a sequence of    *)
(*    [key, val] pairs in insertion order, which is the order for..in,     *)
(*    Object.values and JSON.stringify use for non-integer keys.           *)
(*  - A localStorage slot is [kind, val]: kind "none" when the key is      *)
(*    absent, "json" when it holds the JSON text of val.                   *)
(*  - null / '' / undefined for an optional value is the empty sequence.   *)
(***************************************************************************)
EXTENDS FiniteSets, Integers, Sequences, TLC

\* ------------------------------------------------------------------ bounds
MaxClock == 2
MaxEntries == 2
MaxTagRecords == 2
MaxBurst == 2
MaxMonthsAway == 1
MaxUploads == 2

\* --------------------------------------------------------- value universes
Dash == -1
D1231 == <<2, 0, 2, 3, Dash, 1, 2, Dash, 3, 1>>
D0105 == <<2, 0, 2, 4, Dash, 0, 1, Dash, 0, 5>>
D0110 == <<2, 0, 2, 4, Dash, 0, 1, Dash, 1, 0>>
D0120 == <<2, 0, 2, 4, Dash, 0, 1, Dash, 2, 0>>

EntryDates == {D1231, D0105, D0120}
TagIds == {"T1", "T2"}

\* Entry contents as a caller or the editor form supplies them (id, title,
\* content, tags, images); the last one is a form holding only a blank.
FormStates ==
  { [id |-> "e1", title |-> <<"A", "b">>, content |-> <<>>,
     tags |-> <<"T1">>, images |-> <<>>],
    [id |-> "e2", title |-> <<>>, content |-> <<"b", "a">>,
     tags |-> <<>>, images |-> <<"img1">>],
    [id |-> "e1", title |-> <<"b">>, content |-> <<"a", "B">>,
     tags |-> <<"T2", "T1">>, images |-> <<>>],
    [id |-> "e2", title |-> <<" ">>, content |-> <<>>,
     tags |-> <<>>, images |-> <<>>] }

TagInputs == { [name |-> "Work", color |-> "#c1"],
               [name |-> "Travail", color |-> "#c2"] }

MkEntry(f, d, c, u) ==
  [id |-> f.id, date |-> d, title |-> f.title, content |-> f.content,
   tags |-> f.tags, images |-> f.images, createdAt |-> c, updatedAt |-> u]

MkTag(i, t) == [id |-> i, name |-> t.name, color |-> t.color]

\* ------------------------------------------------------------ JS strings
\* -1, 0, 1 as the code-unit comparison of two strings (the order of the
\* relational operators on strings, and of localeCompare on these texts)
RECURSIVE StrCompareFrom(_, _, _)
StrCompareFrom(a, b, i) ==
  IF i > Len(a) /\ i > Len(b) THEN 0
  ELSE IF i > Len(a) THEN -1
  ELSE IF i > Len(b) THEN 1
  ELSE IF a[i] < b[i] THEN -1
  ELSE IF a[i] > b[i] THEN 1
  ELSE StrCompareFrom(a, b, i + 1)

localeCompare(a, b) == StrCompareFrom(a, b, 1)
StrLess(a, b) == StrCompareFrom(a, b, 1) < 0
StrGreater(a, b) == StrCompareFrom(a, b, 1) > 0

LowerChar(c) == IF c = "A" THEN "a" ELSE IF c = "B" THEN "b" ELSE c
toLowerCase(s) == [i \in 1..Len(s) |-> LowerChar(s[i])]

\* String.prototype.includes
includes(hay, needle) ==
  \E i \in 0..(Len(hay) - Len(needle)) :
     \A j \in 1..Len(needle) : hay[i + j] = needle[j]

\* Array.prototype.includes / filter on sequences
Has(seq, x) == \E i \in 1..Len(seq) : seq[i] = x
Range(seq) == {seq[i] : i \in 1..Len(seq)}
Without(seq, x) == SelectSeq(seq, LAMBDA y : y # x)

\* ----------------------------------------------------------- JS objects
Keys(doc) == {doc[i].key : i \in 1..Len(doc)}
HasKey(doc, k) == \E i \in 1..Len(doc) : doc[i].key = k
Lookup(doc, k) == doc[CHOOSE i \in 1..Len(doc) : doc[i].key = k].val

PutWrong(doc, k, v) == Append(doc, [key |-> k, val |-> v])
\* obj[k] = v : an existing key keeps its position, a new key is appended
Put(doc, k, v) ==
  IF HasKey(doc, k)
    THEN [i \in 1..Len(doc) |->
            IF doc[i].key = k THEN [key |-> k, val |-> v] ELSE doc[i]]
    ELSE Append(doc, [key |-> k, val |-> v])

\* delete obj[k]
Del(doc, k) == SelectSeq(doc, LAMBDA p : p.key # k)

\* { ...a, ...b }
RECURSIVE Spread(_, _)
Spread(a, b) ==
  IF b = <<>> THEN a
  ELSE Spread(Put(a, Head(b).key, Head(b).val), Tail(b))

ObjectValues(doc) == [i \in 1..Len(doc) |-> doc[i].val]

\* ------------------------------------------------------------------ state
VARIABLES
  lsEntries,      \* localStorage slot 'diary_entries'
  lsTags,         \* localStorage slot 'diary_tags'
  now,            \* Date.now()
  currentFilters, \* Search: module-level filter state
  autoSaveTimer,  \* Diary: the entries captured by the timeouts autoSave has
                  \* pending in the browser, oldest first; the module variable
                  \* holds the handle of the newest
  burst,          \* history: the entries of the autoSave calls since the last
                  \* fired or cancelled timeout
  filterDom,      \* Search: the #filter-tags options, [opts, sel]
  modal,          \* diary modal: [open, date, id, options, hadEntry]
  calendar,       \* Calendar: [currentYear, currentMonth, selectedDate]
  currentImages,  \* Diary: the image list of the entry being edited
  uploads,        \* the results of the processImages / fetchRandomDogImage
                  \* calls whose handler has not resumed yet
  detached,       \* history: tags removed by Tags.remove and not selected since
  last            \* the operation that produced this state, with its result

vars == <<lsEntries, lsTags, now, currentFilters, filterDom, autoSaveTimer,
          burst, modal, calendar, currentImages, uploads, detached, last>>

None == [kind |-> "none", val |-> <<>>]
Json(v) == [kind |-> "json", val |-> v]

\* a slot whose text JSON.parse rejects; val remembers the document the text
\* held before it was damaged, which no read returns
Damaged(slot) == [kind |-> "text", val |-> slot.val]

getAllEntriesOfWrong(slot) == slot.val
\* Storage.get(key) || fallback, for both documents: null for an absent key
\* and, through the catch, for text that does not parse
getAllEntriesOf(slot) == IF slot.kind = "json" THEN slot.val ELSE <<>>
getAllTagsOf(slot) == IF slot.kind = "json" THEN slot.val ELSE <<>>

getAllEntries == getAllEntriesOf(lsEntries)
getAllTags == getAllTagsOf(lsTags)

\* Storage.set: the new slot content when the medium accepts (ok) or
\* rejects (~ok) the write; the call returns ok
SetSlotWrong(slot, value, ok) == Json(value)
SetSlot(slot, value, ok) == IF ok THEN Json(value) ELSE slot

\* Storage.getEntry(date): <<>> for null, <<entry>> otherwise
getEntry(date) ==
  IF HasKey(getAllEntries, date) THEN <<Lookup(getAllEntries, date)>> ELSE <<>>

EmptyFilters == [keyword |-> <<>>, tags |-> <<>>, fromDate |-> <<>>, toDate |-> <<>>]
ClosedModal ==
  [open |-> FALSE, date |-> <<>>, id |-> "", options |-> <<>>, hadEntry |-> FALSE]

\* ------------------------------------------- dates: calendar.js 299-304
\* String(n).padStart(2, '0') and the four digits of a year
pad2(n) == <<n \div 10, n % 10>>
YearDigits(y) == <<y \div 1000, (y \div 100) % 10, (y \div 10) % 10, y % 10>>

\* `${year}-${pad(month + 1)}-${pad(day)}`, month counted from 0
dateStringOf(year, month, day) ==
  YearDigits(year) \o <<Dash>> \o pad2(month + 1) \o <<Dash>> \o pad2(day)

\* the fields new Date(dateString) is built from
ParseDate(ds) ==
  [year |-> ds[1] * 1000 + ds[2] * 100 + ds[3] * 10 + ds[4],
   month |-> ds[6] * 10 + ds[7] - 1,
   day |-> ds[9] * 10 + ds[10]]

\* Date arithmetic of the Gregorian calendar, as the Date object does it
isLeapYear(y) == (y % 4 = 0 /\ y % 100 # 0) \/ y % 400 = 0
\* new Date(year, month + 1, 0).getDate()
daysInMonth(year, month) ==
  IF month = 1 THEN (IF isLeapYear(year) THEN 29 ELSE 28)
  ELSE IF month \in {3, 5, 8, 10} THEN 30 ELSE 31
\* new Date(year, month, 0).getDate()
prevMonthLastDayOf(year, month) ==
  IF month = 0 THEN daysInMonth(year - 1, 11) ELSE daysInMonth(year, month - 1)

RECURSIVE daysBeforeMonth(_, _)
daysBeforeMonth(year, month) ==
  IF month = 0 THEN 0
  ELSE daysBeforeMonth(year, month - 1) + daysInMonth(year, month - 1)
daysBeforeYear(y) ==
  365 * (y - 1) + (y - 1) \div 4 - (y - 1) \div 100 + (y - 1) \div 400
\* new Date(year, month, day).getDay(): 0 = Sunday
getDay(year, month, day) ==
  (daysBeforeYear(year) + daysBeforeMonth(year, month) + day) % 7

\* Calendar.init: the month of the clock's date, nothing selected; today is
\* the date string of the moment the module was loaded
CalendarAt(year, month, day) ==
  [currentYear |-> year, currentMonth |-> month, selectedDate |-> <<>>,
   todayString |-> dateStringOf(year, month, day)]

Init ==
  /\ lsEntries = None
  /\ lsTags = None
  /\ now = 1
  /\ currentFilters = EmptyFilters
  /\ filterDom = [opts |-> {}, sel |-> {}]
  /\ autoSaveTimer = <<>>
  /\ burst = <<>>
  /\ modal = ClosedModal
  /\ currentImages = <<>>
  /\ uploads = <<>>
  /\ calendar = CalendarAt(2024, 0, 5)
  /\ detached = {}
  /\ last = [op |-> "init"]

\* ------------------------------------------------------------------ clock
Tick ==
  /\ now < MaxClock
  /\ now' = now + 1
  /\ last' = [op |-> "tick"]
  /\ UNCHANGED <<currentImages, uploads, calendar, lsEntries, lsTags, currentFilters, filterDom, autoSaveTimer, burst,
                 modal, detached>>

\* ------------------------------------------------ entries: storage.js 58-89
\* a save that does not start from the stored document
saveEntryDocWrong(entry) == Put(<<>>, entry.date, entry)
\* const entries = getAllEntries(); entries[entry.date] = entry
saveEntryDoc(entry) == Put(getAllEntries, entry.date, entry)

\* Diary.save(entry): entry.updatedAt = Date.now(); Storage.saveEntry(entry)
DiarySaveSlot(entry, ok) ==
  SetSlot(lsEntries, saveEntryDoc([entry EXCEPT !.updatedAt = now]), ok)

Room(doc, k) == HasKey(doc, k) \/ Len(doc) < MaxEntries

DiarySave(entry, ok) ==
  /\ Room(getAllEntries, entry.date)
  /\ lsEntries' = DiarySaveSlot(entry, ok)
  /\ detached' = detached \ Range(entry.tags)
  /\ last' = [op |-> "Diary.save", entry |-> entry, ret |-> ok, w |-> ok]
  /\ UNCHANGED <<currentImages, uploads, calendar, lsTags, now, currentFilters, filterDom, autoSaveTimer, burst, modal>>

\* Storage.saveEntry(entry) called on its own: the entry is stored with the
\* updatedAt it carries
StorageSaveEntry(entry, ok) ==
  /\ Room(getAllEntries, entry.date)
  /\ lsEntries' = SetSlot(lsEntries, saveEntryDoc(entry), ok)
  /\ detached' = detached \ Range(entry.tags)
  /\ last' = [op |-> "saveEntry", entry |-> entry, ret |-> ok, w |-> ok]
  /\ UNCHANGED <<currentImages, uploads, calendar, lsTags, now, currentFilters, filterDom, autoSaveTimer,
                 burst, modal>>

\* Storage.deleteEntry(date) (= Diary.remove)
deleteEntrySlot(date, ok) ==
  IF HasKey(getAllEntries, date)
    THEN SetSlot(lsEntries, Del(getAllEntries, date), ok)
    ELSE lsEntries
deleteEntryRet(date, ok) == HasKey(getAllEntries, date) /\ ok

DeleteEntry(date, ok) ==
  /\ lsEntries' = deleteEntrySlot(date, ok)
  /\ last' = [op |-> "deleteEntry", date |-> date,
              ret |-> deleteEntryRet(date, ok)]
  /\ UNCHANGED <<currentImages, uploads, calendar, lsTags, now, currentFilters, filterDom, autoSaveTimer, burst,
                 modal, detached>>

\* ------------------------------------------------- tags: storage.js 94-134
tagIdsOf(tags) == {tags[i].id : i \in 1..Len(tags)}

\* Tags.generateId: 'tag_' + Date.now() + '_' + random; an id no record and
\* no stored entry carries
FreshIds == TagIds \ (tagIdsOf(getAllTags) \cup
              UNION {Range(getAllEntries[i].val.tags) : i \in 1..Len(getAllEntries)})

\* Tags.create(name, color) -> Storage.addTag(tag)
TagsCreate(i, t, ok) ==
  /\ i \in FreshIds
  /\ Len(getAllTags) < MaxTagRecords
  /\ lsTags' = SetSlot(lsTags, Append(getAllTags, MkTag(i, t)), ok)
  /\ detached' = detached \ {i}
  /\ last' = [op |-> "Tags.create", tag |-> i, ret |-> ok]
  /\ UNCHANGED <<currentImages, uploads, calendar, lsEntries, now, currentFilters, filterDom, autoSaveTimer, burst, modal>>

\* tags.findIndex(t => t.id === tagId): 0 for -1
findIndex(tags, tagId) ==
  IF \E i \in 1..Len(tags) : tags[i].id = tagId
    THEN CHOOSE i \in 1..Len(tags) :
           /\ tags[i].id = tagId
           /\ \A j \in 1..(i - 1) : tags[j].id # tagId
    ELSE 0

\* Tags.update(tagId, {name}) -> Storage.updateTag
updateTagSlot(tagId, name, ok) ==
  LET tags == getAllTags
      index == findIndex(tags, tagId)
  IN IF index # 0
       THEN SetSlot(lsTags, [tags EXCEPT ![index].name = name], ok)
       ELSE lsTags
updateTagRet(tagId, ok) == findIndex(getAllTags, tagId) # 0 /\ ok

TagsUpdate(tagId, name, ok) ==
  /\ lsTags' = updateTagSlot(tagId, name, ok)
  /\ last' = [op |-> "Tags.update", tag |-> tagId, ret |-> updateTagRet(tagId, ok)]
  /\ UNCHANGED <<currentImages, uploads, calendar, lsEntries, now, currentFilters, filterDom, autoSaveTimer, burst,
                 modal, detached>>

\* Storage.deleteTag(tagId): filter, then saveTags unconditionally
deleteTagSlot(tagId, ok) ==
  SetSlot(lsTags, SelectSeq(getAllTags, LAMBDA t : t.id # tagId), ok)
deleteTagRet(tagId, ok) == ok

StorageDeleteTag(tagId, ok) ==
  /\ lsTags' = deleteTagSlot(tagId, ok)
  /\ last' = [op |-> "deleteTag", tag |-> tagId, ret |-> deleteTagRet(tagId, ok),
              present |-> tagId \in tagIdsOf(getAllTags)]
  /\ UNCHANGED <<currentImages, uploads, calendar, lsEntries, now, currentFilters, filterDom, autoSaveTimer, burst,
                 modal, detached>>

\* ------------------------------------------------------- tags.js 39-57
\* the loop over the entries: every entry carrying tagId loses it
detach(doc, tagId) ==
  [i \in 1..Len(doc) |->
     IF Has(doc[i].val.tags, tagId)
       THEN [doc[i] EXCEPT !.val.tags = Without(doc[i].val.tags, tagId)]
       ELSE doc[i]]
updatedBy(doc, tagId) == \E i \in 1..Len(doc) : Has(doc[i].val.tags, tagId)

removeEntriesSlotWrong(tagId, ok1) == lsEntries
removeEntriesSlot(tagId, ok1) ==
  IF updatedBy(getAllEntries, tagId)
    THEN SetSlot(lsEntries, detach(getAllEntries, tagId), ok1)
    ELSE lsEntries

TagsRemove(tagId, ok1, ok2) ==
  /\ updatedBy(getAllEntries, tagId) \/ ok1
  /\ lsEntries' = removeEntriesSlot(tagId, ok1)
  /\ lsTags' = deleteTagSlot(tagId, ok2)
  /\ last' = [op |-> "Tags.remove", tag |-> tagId, ret |-> deleteTagRet(tagId, ok2),
              present |-> tagId \in tagIdsOf(getAllTags),
              updated |-> updatedBy(getAllEntries, tagId),
              w1 |-> ok1, w2 |-> ok2]
  /\ detached' = IF ok1 /\ ok2 THEN detached \cup {tagId} ELSE detached \ {tagId}
  /\ UNCHANGED <<currentImages, uploads, calendar, now, currentFilters, filterDom, autoSaveTimer, burst, modal>>

\* ------------------------------------------- import: storage.js 196-227
Pair(e) == [key |-> e.date, val |-> e]

Snapshots ==
  { \* the collision scenario: T1 arrives as "Travail", 01-05 is re-dated
    [hasEntries |-> TRUE, hasTags |-> TRUE,
     entries |-> <<Pair(MkEntry([id |-> "e9", title |-> <<"a">>, content |-> <<>>,
                                  tags |-> <<"T1">>, images |-> <<>>], D0105, 1, 1))>>,
     tags |-> <<[id |-> "T1", name |-> "Travail", color |-> "#c9"]>>],
    \* two tags in the snapshot's own order, one entry
    [hasEntries |-> TRUE, hasTags |-> TRUE,
     entries |-> <<Pair(MkEntry([id |-> "e8", title |-> <<>>, content |-> <<"B">>,
                                  tags |-> <<"T2">>, images |-> <<>>], D0120, 1, 1)),
                   Pair(MkEntry([id |-> "e7", title |-> <<"b">>, content |-> <<>>,
                                  tags |-> <<"T1", "T2">>, images |-> <<"img1">>], D0105, 1, 1))>>,
     tags |-> <<[id |-> "T2", name |-> "Trip", color |-> "#c8"],
                [id |-> "T1", name |-> "Work", color |-> "#c1"]>>],
    \* {"entries": {}, "tags": []}
    [hasEntries |-> TRUE, hasTags |-> TRUE, entries |-> <<>>, tags |-> <<>>],
    \* no "tags" field
    [hasEntries |-> TRUE, hasTags |-> FALSE, entries |-> <<>>, tags |-> <<>>],
    \* no "entries" field
    [hasEntries |-> FALSE, hasTags |-> TRUE, entries |-> <<>>,
     tags |-> <<[id |-> "T2", name |-> "Trip", color |-> "#c8"]>>] }

\* every tag id a snapshot mentions
SnapshotIds(data) ==
  tagIdsOf(data.tags) \cup
  UNION {Range(data.entries[i].val.tags) : i \in 1..Len(data.entries)}

ValidSnapshotWrong(data) == data.hasEntries
\* !data.entries || !data.tags throws, and the catch returns false
ValidSnapshot(data) == data.hasEntries /\ data.hasTags

mergedEntriesWrong(data) == Spread(data.entries, getAllEntries)
\* { ...currentEntries, ...data.entries }
mergedEntries(data) == Spread(getAllEntries, data.entries)
newTagsWrong(data) == data.tags
newTags(data) ==
  SelectSeq(data.tags, LAMBDA t : t.id \notin tagIdsOf(getAllTags))
mergedTags(data) == getAllTags \o newTags(data)

importEntriesWrong(data, mode) == getAllEntries \o data.entries
importEntries(data, mode) ==
  IF mode = "overwrite" THEN data.entries ELSE mergedEntries(data)
importTags(data, mode) ==
  IF mode = "overwrite" THEN data.tags ELSE mergedTags(data)

\* the return statement after the two set() calls
importDataRet(data, ok1, ok2) == ValidSnapshot(data)

ImportData(data, mode, ok1, ok2) ==
  /\ ValidSnapshot(data) \/ (ok1 /\ ok2)
  /\ Len(importEntries(data, mode)) <= MaxEntries
  /\ Len(importTags(data, mode)) <= MaxTagRecords
  /\ IF ValidSnapshot(data)
       THEN /\ lsEntries' = SetSlot(lsEntries, importEntries(data, mode), ok1)
            /\ lsTags' = SetSlot(lsTags, importTags(data, mode), ok2)
       ELSE UNCHANGED <<lsEntries, lsTags>>
  /\ detached' = IF ValidSnapshot(data) THEN detached \ SnapshotIds(data) ELSE detached
  /\ last' = [op |-> "importData", mode |-> mode, data |-> data,
              ret |-> importDataRet(data, ok1, ok2),
              w1 |-> ok1, w2 |-> ok2,
              hadDates |-> Keys(getAllEntries), hadTags |-> tagIdsOf(getAllTags)]
  /\ UNCHANGED <<currentImages, uploads, calendar, now, currentFilters, filterDom, autoSaveTimer, burst, modal>>

\* an export that leaves the tags out
exportDataWrong ==
  [hasEntries |-> TRUE, hasTags |-> TRUE,
   entries |-> getAllEntries, tags |-> <<>>,
   exportedAt |-> now, version |-> "1.0"]
\* Storage.exportData(): the snapshot of both documents
exportData ==
  [hasEntries |-> TRUE, hasTags |-> TRUE,
   entries |-> getAllEntries, tags |-> getAllTags,
   exportedAt |-> now, version |-> "1.0"]

ExportData ==
  /\ last' = [op |-> "exportData", ret |-> exportData]
  /\ UNCHANGED <<currentImages, uploads, calendar, lsEntries, lsTags, now, currentFilters, filterDom,
                 autoSaveTimer, burst, modal, detached>>

\* Storage.getEntry(date) called on its own
CallGetEntry(date) ==
  /\ last' = [op |-> "getEntry", date |-> date, ret |-> getEntry(date)]
  /\ UNCHANGED <<currentImages, uploads, calendar, lsEntries, lsTags, now, currentFilters, filterDom,
                 autoSaveTimer, burst, modal, detached>>

\* the stored text of a key is damaged from outside the program (another
\* script of the origin, a hand edit): from then on JSON.parse throws in get
DamageEntries ==
  /\ lsEntries.kind = "json"
  /\ lsEntries' = Damaged(lsEntries)
  /\ last' = [op |-> "damage", key |-> "diary_entries"]
  /\ UNCHANGED <<currentImages, uploads, calendar, lsTags, now, currentFilters, filterDom,
                 autoSaveTimer, burst, modal, detached>>
DamageTags ==
  /\ lsTags.kind = "json"
  /\ lsTags' = Damaged(lsTags)
  /\ last' = [op |-> "damage", key |-> "diary_tags"]
  /\ UNCHANGED <<currentImages, uploads, calendar, lsEntries, now, currentFilters, filterDom,
                 autoSaveTimer, burst, modal, detached>>

\* Storage.clearAll: removeItem on both keys
ClearAll ==
  /\ lsEntries' = None
  /\ lsTags' = None
  /\ last' = [op |-> "clearAll"]
  /\ UNCHANGED <<currentImages, uploads, calendar, now, currentFilters, filterDom, autoSaveTimer, burst, modal, detached>>

\* --------------------------------------------- editor: diary.js, app.js
EntryIds == {"e1", "e2"}

\* String.prototype.trim on the blank character
RECURSIVE TrimLeft(_)
TrimLeft(t) == IF t # <<>> /\ Head(t) = " " THEN TrimLeft(Tail(t)) ELSE t
RECURSIVE TrimRight(_)
TrimRight(t) ==
  IF t # <<>> /\ t[Len(t)] = " " THEN TrimRight(SubSeq(t, 1, Len(t) - 1)) ELSE t
trim(t) == TrimRight(TrimLeft(t))

\* Diary.generateId: an id no stored entry carries
FreshEntryIds ==
  EntryIds \ {getAllEntries[i].val.id : i \in 1..Len(getAllEntries)}

\* setCurrentImages(images): currentImages = images ? [...images] : []
setCurrentImages(images) == images

\* Diary.openModal(date): the form takes the stored entry's id (or a new
\* one), the selector lists the tags that exist now and the image list is
\* the stored entry's
OpenModal(date, newId) ==
  /\ ~modal.open
  /\ newId \in FreshEntryIds
  /\ modal' = [open |-> TRUE, date |-> date,
               id |-> IF getEntry(date) # <<>> THEN getEntry(date)[1].id ELSE newId,
               options |-> [i \in 1..Len(getAllTags) |-> getAllTags[i].id],
               hadEntry |-> getEntry(date) # <<>>]
  /\ currentImages' = setCurrentImages(IF getEntry(date) # <<>>
                                         THEN getEntry(date)[1].images ELSE <<>>)
  /\ last' = [op |-> "openModal", date |-> date]
  /\ UNCHANGED <<uploads, calendar, lsEntries, lsTags, now, currentFilters, filterDom, autoSaveTimer,
                 burst, detached>>

\* Diary.getModalData() when the form holds f: the selected tags are read
\* off the selector in its own order, the images are getCurrentImages()
getModalData(f) ==
  [id |-> modal.id, date |-> modal.date,
   title |-> trim(f.title), content |-> trim(f.content),
   tags |-> SelectSeq(modal.options, LAMBDA t : Has(f.tags, t)),
   images |-> currentImages,
   createdAt |-> IF getEntry(modal.date) # <<>> /\ getEntry(modal.date)[1].createdAt # 0
                   THEN getEntry(modal.date)[1].createdAt ELSE now,
   updatedAt |-> now]

\* clearTimeout(autoSaveTimer): the timeout the handle names, the newest one,
\* leaves the pending ones
clearTimeoutWrong(pending) == pending
clearTimeout(pending) ==
  IF pending # <<>> THEN SubSeq(pending, 1, Len(pending) - 1) ELSE pending

\* input event on the title or content field: Diary.autoSave(getModalData())
\* clears the pending timeout and schedules a new one holding the entry
EditInput(f) ==
  /\ modal.open
  /\ Len(burst) < MaxBurst
  /\ autoSaveTimer' = Append(clearTimeout(autoSaveTimer), getModalData(f))
  /\ burst' = Append(burst, getModalData(f))
  /\ detached' = detached \ Range(getModalData(f).tags)
  /\ last' = [op |-> "autoSave", entry |-> getModalData(f)]
  /\ UNCHANGED <<currentImages, uploads, calendar, lsEntries, lsTags, now, currentFilters, filterDom, modal>>

\* a callback that stays scheduled after it ran (setInterval)
TimerFireWrong(ok) ==
  /\ autoSaveTimer # <<>>
  /\ Room(getAllEntries, autoSaveTimer[1].date)
  /\ lsEntries' = DiarySaveSlot(autoSaveTimer[1], ok)
  /\ autoSaveTimer' = autoSaveTimer
  /\ burst' = <<>>
  /\ last' = [op |-> "autoSave.fire", entry |-> autoSaveTimer[1], ret |-> ok,
              n |-> Len(burst)]
  /\ UNCHANGED <<currentImages, uploads, calendar, lsTags, now, currentFilters, filterDom, modal, detached>>
\* the timeout callback of the oldest pending timeout: save(entry); n is the
\* number of autoSave calls the burst it ends had
TimerFire(ok) ==
  /\ autoSaveTimer # <<>>
  /\ Room(getAllEntries, autoSaveTimer[1].date)
  /\ lsEntries' = DiarySaveSlot(autoSaveTimer[1], ok)
  /\ autoSaveTimer' = Tail(autoSaveTimer)
  /\ burst' = <<>>
  /\ last' = [op |-> "autoSave.fire", entry |-> autoSaveTimer[1], ret |-> ok,
              n |-> Len(burst)]
  /\ UNCHANGED <<currentImages, uploads, calendar, lsTags, now, currentFilters, filterDom, modal, detached>>

\* App.closeModal(modal): the close button, the overlay and Escape only hide
\* the modal
AppCloseModal ==
  /\ modal.open
  /\ modal' = ClosedModal
  /\ last' = [op |-> "App.closeModal"]
  /\ UNCHANGED <<currentImages, uploads, calendar, lsEntries, lsTags, now, currentFilters, filterDom, autoSaveTimer,
                 burst, detached>>

\* an emptiness test that forgets the images
isEmptyEntryWrong(entry) ==
  /\ entry.title = <<>>
  /\ entry.content = <<>>
  /\ Len(entry.tags) = 0
\* !entry.title && !entry.content && entry.images.length === 0 &&
\* entry.tags.length === 0
isEmptyEntry(entry) ==
  /\ entry.title = <<>>
  /\ entry.content = <<>>
  /\ Len(entry.images) = 0
  /\ Len(entry.tags) = 0

\* saveDiary(), then Diary.closeModal()
SaveDiary(f, ok) ==
  LET entry == getModalData(f)
      existingEntry == getEntry(entry.date)
  IN /\ modal.open
     /\ Room(getAllEntries, entry.date)
     /\ lsEntries' = IF isEmptyEntry(entry)
                       THEN IF existingEntry # <<>>
                              THEN deleteEntrySlot(entry.date, ok)
                              ELSE lsEntries
                       ELSE DiarySaveSlot(entry, ok)
     /\ autoSaveTimer' = clearTimeout(autoSaveTimer)
     /\ burst' = <<>>
     /\ modal' = ClosedModal
     /\ detached' = detached \ Range(entry.tags)
     /\ last' = [op |-> "saveDiary", entry |-> entry, ok |-> ok,
                 existed |-> existingEntry # <<>>, hadTimer |-> autoSaveTimer # <<>>]
     /\ UNCHANGED <<currentImages, uploads, calendar, lsTags, now, currentFilters, filterDom>>

\* the delete button's confirmed callback: Diary.remove(date); closeModal()
DeleteDiary(ok) ==
  /\ modal.open
  /\ modal.hadEntry
  /\ lsEntries' = deleteEntrySlot(modal.date, ok)
  /\ autoSaveTimer' = clearTimeout(autoSaveTimer)
  /\ burst' = <<>>
  /\ modal' = ClosedModal
  /\ last' = [op |-> "deleteDiary", date |-> modal.date,
              ret |-> deleteEntryRet(modal.date, ok)]
  /\ UNCHANGED <<currentImages, uploads, calendar, lsTags, now, currentFilters, filterDom, detached>>

\* ----------------------------------------------- images: diary.js 14-207
MAX_IMAGES == 10

\* arr.slice(0, end): a negative end counts from the end of the array
slice0(arr, end) ==
  LET stop == IF end < 0
                THEN (IF Len(arr) + end < 0 THEN 0 ELSE Len(arr) + end)
                ELSE (IF end > Len(arr) THEN Len(arr) ELSE end)
  IN SubSeq(arr, 1, stop)

\* Diary.addImages(images): the list after the push
addImages(images) ==
  LET remaining == MAX_IMAGES - Len(currentImages)
  IN currentImages \o slice0(images, remaining)

\* Diary.processImages(files): the files kept by the slice, those that are
\* images and that the canvas could encode, in order
processImages(files) ==
  LET remainingSlots == MAX_IMAGES - Len(currentImages)
      filesToProcess == slice0(files, remainingSlots)
  IN SelectSeq(filesToProcess, LAMBDA file : file # "txt")

\* change event of #image-input, or a drop: processImages(files) runs up to
\* its first await with the list as it is now
ProcessImagesStart(files) ==
  /\ modal.open
  /\ Len(uploads) < MaxUploads
  /\ uploads' = Append(uploads, processImages(files))
  /\ last' = [op |-> "processImages", files |-> files,
              had |-> Len(currentImages)]
  /\ UNCHANGED <<currentImages, calendar, lsEntries, lsTags, now, currentFilters,
                 filterDom, autoSaveTimer, burst, modal, detached>>

\* click on the random image button: nothing when the list is full,
\* otherwise the fetch starts
FetchRandomDogStart ==
  /\ modal.open
  /\ Len(uploads) < MaxUploads
  /\ uploads' = IF Len(currentImages) >= MAX_IMAGES THEN uploads
                ELSE Append(uploads, <<"img">>)
  /\ last' = [op |-> "randomDog", had |-> Len(currentImages)]
  /\ UNCHANGED <<currentImages, calendar, lsEntries, lsTags, now, currentFilters,
                 filterDom, autoSaveTimer, burst, modal, detached>>

\* the handler of upload k resumes after its await: Diary.addImages(images)
AddImages(k) ==
  /\ k \in 1..Len(uploads)
  /\ currentImages' = addImages(uploads[k])
  /\ uploads' = SubSeq(uploads, 1, k - 1) \o SubSeq(uploads, k + 1, Len(uploads))
  /\ last' = [op |-> "addImages", images |-> uploads[k],
              had |-> Len(currentImages)]
  /\ UNCHANGED <<calendar, lsEntries, lsTags, now, currentFilters,
                 filterDom, autoSaveTimer, burst, modal, detached>>

\* click on the remove button of preview item index: splice(index, 1)
RemoveImage(index) ==
  /\ modal.open
  /\ index \in 0..(Len(currentImages) - 1)
  /\ currentImages' = SubSeq(currentImages, 1, index)
                        \o SubSeq(currentImages, index + 2, Len(currentImages))
  /\ last' = [op |-> "removeImage", index |-> index]
  /\ UNCHANGED <<uploads, calendar, lsEntries, lsTags, now, currentFilters,
                 filterDom, autoSaveTimer, burst, modal, detached>>

\* ------------------------------------------ calendar: calendar.js 309-534
\* Tags.getById(tagId): <<>> for null
getById(tagId) ==
  IF findIndex(getAllTags, tagId) # 0
    THEN <<getAllTags[findIndex(getAllTags, tagId)]>> ELSE <<>>

\* the first three of the ids that name a tag
tagDotsOfWrong(tags) ==
  LET named == SelectSeq(tags, LAMBDA t : getById(t) # <<>>)
      first3 == SubSeq(named, 1, IF Len(named) < 3 THEN Len(named) ELSE 3)
  IN [i \in 1..Len(first3) |-> getById(first3[i])[1].color]
\* entry.tags.slice(0, 3).map(...).join(''): the colours of the first three
\* ids that name a tag
tagDotsOf(tags) ==
  LET first3 == SubSeq(tags, 1, IF Len(tags) < 3 THEN Len(tags) ELSE 3)
      named == SelectSeq(first3, LAMBDA t : getById(t) # <<>>)
  IN [i \in 1..Len(named) |-> getById(named[i])[1].color]

\* a cell that takes the today class from the day number alone
CellWrong(cal, day, dateString, isOtherMonth, dayOfWeek) ==
  [day |-> day, dateString |-> dateString, isOtherMonth |-> isOtherMonth,
   today |-> day = ParseDate(cal.todayString).day,
   selected |-> dateString = cal.selectedDate,
   sunday |-> dayOfWeek = 0, saturday |-> dayOfWeek = 6,
   hasEntry |-> HasKey(getAllEntries, dateString),
   tagDots |-> IF HasKey(getAllEntries, dateString)
                 THEN tagDotsOf(Lookup(getAllEntries, dateString).tags)
                 ELSE <<>>]
\* one cell of the grid: the classes, the data-date, the number, the marks
Cell(cal, day, dateString, isOtherMonth, dayOfWeek) ==
  [day |-> day, dateString |-> dateString, isOtherMonth |-> isOtherMonth,
   today |-> dateString = cal.todayString,
   selected |-> dateString = cal.selectedDate,
   sunday |-> dayOfWeek = 0, saturday |-> dayOfWeek = 6,
   hasEntry |-> HasKey(getAllEntries, dateString),
   tagDots |-> IF HasKey(getAllEntries, dateString)
                 THEN tagDotsOf(Lookup(getAllEntries, dateString).tags)
                 ELSE <<>>]

prevMonthDayWrong(prevMonthLastDay, startDayOfWeek, cellIndex) ==
  prevMonthLastDay - startDayOfWeek + cellIndex
\* day = prevMonthLastDay - startDayOfWeek + cellIndex + 1
prevMonthDay(prevMonthLastDay, startDayOfWeek, cellIndex) ==
  prevMonthLastDay - startDayOfWeek + cellIndex + 1

\* currentMonth === 0 ? currentYear - 1 : currentYear, and
\* currentMonth === 11 ? currentYear + 1 : currentYear
prevYearOf(year, month) == IF month = 0 THEN year - 1 ELSE year
nextYearOfWrong(year, month) == year
nextYearOf(year, month) == IF month = 11 THEN year + 1 ELSE year

\* what a cell of the grid can hold
Cells ==
  [day : Nat, dateString : Seq(Int), isOtherMonth : BOOLEAN, today : BOOLEAN,
   selected : BOOLEAN, sunday : BOOLEAN, saturday : BOOLEAN,
   hasEntry : BOOLEAN, tagDots : Seq(STRING)]

\* Calendar.renderDays(): the 42 cells written to #calendar-days. loop is the
\* two nested loops, cellIndex = week * 7 + dayOfWeek, over the running
\* counters <<cellIndex, dayCount, nextMonthDay>> and the cells so far
renderDays(cal) ==
  LET year == cal.currentYear
      month == cal.currentMonth
      startDayOfWeek == getDay(year, month, 1)
      lastDate == daysInMonth(year, month)
      prevMonthLastDay == prevMonthLastDayOf(year, month)
      prevMonth == IF month = 0 THEN 11 ELSE month - 1
      prevYear == prevYearOf(year, month)
      nextMonth == IF month = 11 THEN 0 ELSE month + 1
      nextYear == nextYearOf(year, month)
      loop[st \in Nat \X Nat \X Nat \X Seq(Cells)] ==
        LET cellIndex == st[1]
            dayCount == st[2]
            nextMonthDay == st[3]
            cells == st[4]
            dayOfWeek == cellIndex % 7
        IN IF cellIndex >= 6 * 7 THEN cells
           ELSE IF cellIndex < startDayOfWeek
             THEN LET day == prevMonthDay(prevMonthLastDay, startDayOfWeek, cellIndex)
                  IN loop[<<cellIndex + 1, dayCount, nextMonthDay,
                            Append(cells, Cell(cal, day,
                                               dateStringOf(prevYear, prevMonth, day),
                                               TRUE, dayOfWeek))>>]
           ELSE IF dayCount <= lastDate
             THEN loop[<<cellIndex + 1, dayCount + 1, nextMonthDay,
                         Append(cells, Cell(cal, dayCount,
                                            dateStringOf(year, month, dayCount),
                                            FALSE, dayOfWeek))>>]
             ELSE loop[<<cellIndex + 1, dayCount, nextMonthDay + 1,
                         Append(cells, Cell(cal, nextMonthDay,
                                            dateStringOf(nextYear, nextMonth, nextMonthDay),
                                            TRUE, dayOfWeek))>>]
  IN loop[<<0, 1, 1, <<>>>>]

\* months between the displayed month and the month of todayString
monthsAway(cal, year, month) ==
  LET t == ParseDate(cal.todayString)
      d == (year * 12 + month) - (t.year * 12 + t.month)
  IN IF d < 0 THEN -d ELSE d

\* render() after the state change
Render(cal) ==
  /\ monthsAway(cal, cal.currentYear, cal.currentMonth) <= MaxMonthsAway
  /\ calendar' = cal
  /\ last' = [op |-> "render", grid |-> renderDays(calendar')]
  /\ UNCHANGED <<currentImages, uploads, lsEntries, lsTags, now, currentFilters,
                 filterDom, autoSaveTimer, burst, modal, detached>>

\* Calendar.refresh(): render() on the state as it is
Refresh == Render(calendar)

GoToPrevMonth ==
  Render(
    IF calendar.currentMonth - 1 < 0
      THEN [calendar EXCEPT !.currentMonth = 11, !.currentYear = @ - 1]
      ELSE [calendar EXCEPT !.currentMonth = @ - 1])

GoToNextMonth ==
  Render(
    IF calendar.currentMonth + 1 > 11
      THEN [calendar EXCEPT !.currentMonth = 0, !.currentYear = @ + 1]
      ELSE [calendar EXCEPT !.currentMonth = @ + 1])

\* goToToday(): the month of new Date() at the click, which is the month of
\* todayString or, when the page stayed open, a later one; the selection is
\* todayString
GoToToday(later) ==
  LET t == ParseDate(calendar.todayString)
      year == IF later /\ t.month = 11 THEN t.year + 1 ELSE t.year
      month == IF later THEN (t.month + 1) % 12 ELSE t.month
  IN Render(
       [calendar EXCEPT !.currentYear = year, !.currentMonth = month,
                        !.selectedDate = calendar.todayString])

\* getFullYear() / getMonth() of new Date(dateString): the string is read as
\* midnight UTC, which west of Greenwich is still the day before
localMonthOf(dateString, west) ==
  LET p == ParseDate(dateString)
  IN IF west /\ p.day = 1
       THEN [year |-> IF p.month = 0 THEN p.year - 1 ELSE p.year,
             month |-> IF p.month = 0 THEN 11 ELSE p.month - 1]
       ELSE [year |-> p.year, month |-> p.month]

\* the cells in #calendar-days: what the last render() wrote
calendarDays ==
  IF last.op = "render"
    THEN last.grid ELSE renderDays(calendar)

\* click on cell i of the grid: selectDate(cell.dataset.date)
SelectDate(i, west) ==
  LET dateString == calendarDays[i].dateString
      clickedDate == localMonthOf(dateString, west)
  IN Render(
       [calendar EXCEPT !.currentYear = clickedDate.year,
                        !.currentMonth = clickedDate.month,
                        !.selectedDate = dateString])

\* ------------------------------------------------ search: search.js 5-90
Fields == {"keyword", "tags", "fromDate", "toDate"}

\* Search.searchByKeyword(keyword), over the document in for..in order
searchByKeywordWrong(keyword) ==
  SelectSeq(ObjectValues(getAllEntries),
            LAMBDA entry :
              \/ entry.title # <<>> /\ includes(entry.title, keyword)
              \/ entry.content # <<>> /\ includes(entry.content, keyword))
searchByKeyword(keyword) ==
  LET lowerKeyword == toLowerCase(keyword)
  IN SelectSeq(ObjectValues(getAllEntries),
               LAMBDA entry :
                 \/ entry.title # <<>> /\ includes(toLowerCase(entry.title), lowerKeyword)
                 \/ entry.content # <<>> /\ includes(toLowerCase(entry.content), lowerKeyword))

\* Search.filterByTags(entries, tagIds)
filterByTagsWrong(entries, tagIds) ==
  IF Len(tagIds) = 0 THEN entries
  ELSE SelectSeq(entries,
                 LAMBDA entry :
                   IF Len(entry.tags) = 0 THEN FALSE
                   ELSE \A i \in 1..Len(tagIds) : Has(entry.tags, tagIds[i]))
filterByTags(entries, tagIds) ==
  IF Len(tagIds) = 0 THEN entries
  ELSE SelectSeq(entries,
                 LAMBDA entry :
                   IF Len(entry.tags) = 0 THEN FALSE
                   ELSE \E i \in 1..Len(tagIds) : Has(entry.tags, tagIds[i]))

\* Search.filterByDateRange(entries, fromDate, toDate)
filterByDateRangeWrong(entries, fromDate, toDate) ==
  SelectSeq(entries,
            LAMBDA entry :
              /\ ~(fromDate # <<>> /\ ~StrGreater(entry.date, fromDate))
              /\ ~(toDate # <<>> /\ StrGreater(entry.date, toDate)))
filterByDateRange(entries, fromDate, toDate) ==
  SelectSeq(entries,
            LAMBDA entry :
              /\ ~(fromDate # <<>> /\ StrLess(entry.date, fromDate))
              /\ ~(toDate # <<>> /\ StrGreater(entry.date, toDate)))

\* results.sort((a, b) => b.date.localeCompare(a.date)): a stable sort,
\* here by insertion from the left
RECURSIVE InsertDesc(_, _)
InsertDesc(sorted, e) ==
  IF sorted = <<>> THEN <<e>>
  ELSE IF localeCompare(e.date, Head(sorted).date) > 0
         THEN <<e>> \o sorted
         ELSE <<Head(sorted)>> \o InsertDesc(Tail(sorted), e)
RECURSIVE SortDescFrom(_, _)
SortDescFrom(acc, rest) ==
  IF rest = <<>> THEN acc
  ELSE SortDescFrom(InsertDesc(acc, Head(rest)), Tail(rest))
sortByDateDesc(results) == SortDescFrom(<<>>, results)

\* currentFilters = { ...currentFilters, ...filters }: filters.given names
\* the properties the argument object has
mergeFilters(cur, filters) ==
  [keyword |-> IF "keyword" \in filters.given THEN filters.keyword ELSE cur.keyword,
   tags |-> IF "tags" \in filters.given THEN filters.tags ELSE cur.tags,
   fromDate |-> IF "fromDate" \in filters.given THEN filters.fromDate ELSE cur.fromDate,
   toDate |-> IF "toDate" \in filters.given THEN filters.toDate ELSE cur.toDate]

\* the pipeline of Search.search once currentFilters is cf
searchResults(cf) ==
  LET r1 == IF cf.keyword # <<>> THEN searchByKeyword(cf.keyword)
            ELSE ObjectValues(getAllEntries)
      r2 == IF Len(cf.tags) > 0 THEN filterByTags(r1, cf.tags) ELSE r1
      r3 == IF cf.fromDate # <<>> \/ cf.toDate # <<>>
              THEN filterByDateRange(r2, cf.fromDate, cf.toDate) ELSE r2
  IN sortByDateDesc(r3)

AllGiven(cf) ==
  [given |-> Fields, keyword |-> cf.keyword, tags |-> cf.tags,
   fromDate |-> cf.fromDate, toDate |-> cf.toDate]

\* Search.search(filters)
Search(filters) ==
  /\ currentFilters' = mergeFilters(currentFilters, filters)
  /\ last' = [op |-> "search", filters |-> filters,
              result |-> searchResults(mergeFilters(currentFilters, filters))]
  /\ UNCHANGED <<currentImages, uploads, calendar, lsEntries, lsTags, now, filterDom, autoSaveTimer, burst, modal,
                 detached>>

\* the search the UI handlers run: search(currentFilters) on the state cf
\* they have just written
UiSearch(cf) ==
  /\ currentFilters' = cf
  /\ last' = [op |-> "search", filters |-> AllGiven(cf), result |-> searchResults(cf)]

\* Search.openModal(keyword): the filter state is reset, the tag options are
\* rendered from the tags that exist, then search(currentFilters)
OpenSearchModal(keyword) ==
  /\ filterDom' = [opts |-> tagIdsOf(getAllTags), sel |-> {}]
  /\ UiSearch([keyword |-> keyword, tags |-> <<>>, fromDate |-> <<>>, toDate |-> <<>>])
  /\ UNCHANGED <<currentImages, uploads, calendar, lsEntries, lsTags, now, autoSaveTimer, burst, modal, detached>>

\* click on a tag option of the filter: toggle the class, then follow it;
\* Tags.getById(...).color throws for a tag deleted since the rendering
ToggleFilterTag(tagId) ==
  /\ tagId \in filterDom.opts
  /\ IF tagId \notin filterDom.sel
       THEN /\ filterDom' = [filterDom EXCEPT !.sel = @ \cup {tagId}]
            /\ IF tagId \in tagIdsOf(getAllTags)
                 THEN UiSearch([currentFilters EXCEPT
                        !.tags = IF Has(@, tagId) THEN @ ELSE Append(@, tagId)])
                 ELSE /\ last' = [op |-> "filterClick.throws"]
                      /\ UNCHANGED currentFilters
       ELSE /\ filterDom' = [filterDom EXCEPT !.sel = @ \ {tagId}]
            /\ UiSearch([currentFilters EXCEPT !.tags = Without(@, tagId)])
  /\ UNCHANGED <<currentImages, uploads, calendar, lsEntries, lsTags, now, autoSaveTimer, burst, modal, detached>>

\* change event of #filter-from / #filter-to
ChangeFromDate(v) ==
  /\ UiSearch([currentFilters EXCEPT !.fromDate = v])
  /\ UNCHANGED <<currentImages, uploads, calendar, lsEntries, lsTags, now, filterDom, autoSaveTimer, burst, modal,
                 detached>>
ChangeToDate(v) ==
  /\ UiSearch([currentFilters EXCEPT !.toDate = v])
  /\ UNCHANGED <<currentImages, uploads, calendar, lsEntries, lsTags, now, filterDom, autoSaveTimer, burst, modal,
                 detached>>

\* direct calls of the two exported filters on the stored entries
CallFilterByTags(tagIds) ==
  /\ last' = [op |-> "filterByTags", entries |-> ObjectValues(getAllEntries),
              tagIds |-> tagIds,
              result |-> filterByTags(ObjectValues(getAllEntries), tagIds)]
  /\ UNCHANGED <<currentImages, uploads, calendar, lsEntries, lsTags, now, currentFilters, filterDom, autoSaveTimer, burst,
                 modal, detached>>
CallFilterByDateRange(fromDate, toDate) ==
  /\ last' = [op |-> "filterByDateRange", entries |-> ObjectValues(getAllEntries),
              fromDate |-> fromDate, toDate |-> toDate,
              result |-> filterByDateRange(ObjectValues(getAllEntries), fromDate, toDate)]
  /\ UNCHANGED <<currentImages, uploads, calendar, lsEntries, lsTags, now, currentFilters, filterDom, autoSaveTimer, burst,
                 modal, detached>>

\* criteria the callers pass
Keywords == {<<>>, <<"a", "B">>}
TagSelections == {<<>>, <<"T1">>, <<"T2", "T1">>}
FromDates == {<<>>, D0105}
ToDates == {<<>>, D0120}
Givens == {{}, Fields, {"keyword"}, {"tags"}, {"fromDate", "toDate"}}

\* ------------------------------------------------------------------- Spec
DoDiarySave ==
  \E f \in FormStates, d \in EntryDates, c \in 1..now, u \in 1..now, ok \in BOOLEAN :
     DiarySave(MkEntry(f, d, c, u), ok)
DoDeleteEntry == \E d \in EntryDates, ok \in BOOLEAN : DeleteEntry(d, ok)
DoTagsCreate == \E i \in TagIds, t \in TagInputs, ok \in BOOLEAN : TagsCreate(i, t, ok)
DoTagsUpdate == \E i \in TagIds, ok \in BOOLEAN : TagsUpdate(i, "Renamed", ok)
DoStorageDeleteTag == \E i \in TagIds, ok \in BOOLEAN : StorageDeleteTag(i, ok)
DoTagsRemove == \E i \in TagIds, ok1, ok2 \in BOOLEAN : TagsRemove(i, ok1, ok2)
DoImportData ==
  \E data \in Snapshots, mode \in {"merge", "overwrite"}, ok1, ok2 \in BOOLEAN :
     ImportData(data, mode, ok1, ok2)

DoOpenModal == \E d \in EntryDates, i \in EntryIds : OpenModal(d, i)
DoEditInput == \E f \in FormStates : EditInput(f)
DoTimerFire == \E ok \in BOOLEAN : TimerFire(ok)
DoSaveDiary == \E f \in FormStates, ok \in BOOLEAN : SaveDiary(f, ok)
DoDeleteDiary == \E ok \in BOOLEAN : DeleteDiary(ok)

DoSearch ==
  \E g \in Givens, k \in Keywords, t \in TagSelections, f \in FromDates, u \in ToDates :
     /\ "keyword" \notin g => k = <<>>
     /\ "tags" \notin g => t = <<>>
     /\ "fromDate" \notin g => f = <<>>
     /\ "toDate" \notin g => u = <<>>
     /\ Search([given |-> g, keyword |-> k, tags |-> t, fromDate |-> f, toDate |-> u])
DoOpenSearchModal == \E k \in Keywords : OpenSearchModal(k)
DoToggleFilterTag == \E t \in TagIds : ToggleFilterTag(t)
DoChangeFromDate == \E v \in FromDates : ChangeFromDate(v)
DoChangeToDate == \E v \in ToDates : ChangeToDate(v)
DoCallFilterByTags == \E t \in TagSelections : CallFilterByTags(t)
DoCallFilterByDateRange ==
  \E f \in {<<>>, D0105, D0110}, u \in {<<>>, D0105, D0110} : CallFilterByDateRange(f, u)

\* lists of n images, and the file lists of the picker: four images, or
\* seven files of which one is not an image
Images(n) == [i \in 1..n |-> "img"]
FileLists == {Images(4), Images(3) \o <<"txt">> \o Images(3)}
DoProcessImagesStart == \E files \in FileLists : ProcessImagesStart(files)
DoAddImages == \E k \in 1..MaxUploads : AddImages(k)
DoRemoveImage == \E index \in {0, MAX_IMAGES - 1} : RemoveImage(index)
ImageEditorForms == {f \in FormStates : f.title = <<"A", "b">>}

DoGoToToday == \E later \in BOOLEAN : GoToToday(later)
\* the cells clicked: the corners of the grid, the first Thursday and
\* Saturday, and a day in the middle
ClickCells == {1, 5, 7, 20, 42}
DoSelectDate == \E i \in ClickCells, west \in BOOLEAN : SelectDate(i, west)

\* the whole program
Next ==
  \/ DoProcessImagesStart
  \/ FetchRandomDogStart
  \/ DoAddImages
  \/ DoRemoveImage
  \/ Refresh
  \/ GoToPrevMonth
  \/ GoToNextMonth
  \/ DoGoToToday
  \/ DoSelectDate
  \/ DoSearch
  \/ DoOpenSearchModal
  \/ DoToggleFilterTag
  \/ DoChangeFromDate
  \/ DoChangeToDate
  \/ DoCallFilterByTags
  \/ DoCallFilterByDateRange
  \/ Tick
  \/ DoOpenModal
  \/ DoEditInput
  \/ DoTimerFire
  \/ AppCloseModal
  \/ DoSaveDiary
  \/ DoDeleteDiary
  \/ DoDiarySave
  \/ DoDeleteEntry
  \/ DoTagsCreate
  \/ DoTagsUpdate
  \/ DoStorageDeleteTag
  \/ DoTagsRemove
  \/ DoImportData
  \/ ClearAll

Spec == Init /\ [][Next]_vars

\* input sets of the narrower specifications: one date, a tagged and a blank
\* form, one tag colour
EditorDates == {D0105}
EditorForms == {f \in FormStates : f.title # <<>> /\ f.content = <<>>}
EditorTag == [name |-> "Work", color |-> "#c1"]

\* the entry repository on its own, over two dates; an entry arrives with the
\* stamps Diary.create or getModalData gave it, createdAt <= updatedAt <= now
NextEntries ==
  \/ Tick
  \/ \E f \in EditorForms, d \in {D0105, D0120}, c \in 1..now, u \in 1..now,
        ok \in BOOLEAN :
       /\ c <= u
       /\ DiarySave(MkEntry(f, d, c, u), ok)
  \/ DoDeleteEntry
  \/ ClearAll

SpecEntries == Init /\ [][NextEntries]_vars

\* the tag repository, the cascade and import, entries arriving by import
NextTags ==
  \/ DoTagsCreate
  \/ DoTagsUpdate
  \/ DoStorageDeleteTag
  \/ DoTagsRemove
  \/ DoImportData
  \/ DoDeleteEntry
  \/ ClearAll

SpecTags == Init /\ [][NextTags]_vars

\* the editor with its auto-save timer, next to tag creation and removal
NextEditor ==
  \/ \E d \in EditorDates, i \in EntryIds : OpenModal(d, i)
  \/ \E f \in EditorForms : EditInput(f)
  \/ DoTimerFire
  \/ AppCloseModal
  \/ \E f \in EditorForms, ok \in BOOLEAN : SaveDiary(f, ok)
  \/ DoDeleteDiary
  \/ \E i \in TagIds, ok \in BOOLEAN : TagsCreate(i, EditorTag, ok)
  \/ DoTagsRemove

SpecEditor == Init /\ [][NextEditor]_vars

\* Search.search over stores written by Diary.save
SearchForms == {f \in FormStates : Len(f.tags) < 2 /\ f.title # <<" ">>}

NextSearch ==
  \/ \E f \in SearchForms, d \in EntryDates : DiarySave(MkEntry(f, d, now, now), TRUE)
  \/ \E d \in EntryDates : DeleteEntry(d, TRUE)
  \/ DoSearch

SpecSearch == Init /\ [][NextSearch]_vars

\* the same with the filter UI of the search modal
NextSearchUi ==
  \/ \E f \in SearchForms, d \in EntryDates : DiarySave(MkEntry(f, d, now, now), TRUE)
  \/ \E d \in EntryDates : DeleteEntry(d, TRUE)
  \/ TagsCreate("T1", EditorTag, TRUE)
  \/ StorageDeleteTag("T1", TRUE)
  \/ DoSearch
  \/ DoOpenSearchModal
  \/ DoToggleFilterTag
  \/ DoChangeFromDate
  \/ DoChangeToDate

SpecSearchUi == Init /\ [][NextSearchUi]_vars

\* the two exported filters applied to the stored entries, in document order
NextFilters ==
  \/ \E f \in FormStates, d \in EntryDates : DiarySave(MkEntry(f, d, now, now), TRUE)
  \/ \E d \in EntryDates : DeleteEntry(d, TRUE)
  \/ DoCallFilterByTags
  \/ DoCallFilterByDateRange

SpecFilters == Init /\ [][NextFilters]_vars

\* every writer of the entries document: saves, deletions, the tag cascade,
\* the auto-save of the editor, both imports and clearAll
RepositoryForms == {f \in FormStates : f.tags = <<"T1">>}
RepositorySnapshots == {data \in Snapshots : Len(data.entries) = 1}

NextRepository ==
  \/ \E f \in RepositoryForms : DiarySave(MkEntry(f, D0120, now, now), TRUE)
  \/ \E d \in {D0105, D0120} : DeleteEntry(d, TRUE)
  \/ TagsRemove("T1", TRUE, TRUE)
  \/ OpenModal(D0105, "e2")
  \/ \E f \in RepositoryForms : EditInput(f)
  \/ DoTimerFire
  \/ AppCloseModal
  \/ \E data \in RepositorySnapshots, mode \in {"merge", "overwrite"} :
       ImportData(data, mode, TRUE, TRUE)
  \/ ClearAll

SpecRepository == Init /\ [][NextRepository]_vars

\* the writers of updatedAt under a running clock
NextStamps ==
  \/ Tick
  \/ \E f \in RepositoryForms : DiarySave(MkEntry(f, D0105, now, now), TRUE)
  \/ \E f \in RepositoryForms, c \in 1..now, u \in 1..now :
       c <= u /\ StorageSaveEntry(MkEntry(f, D0105, c, u), TRUE)
  \/ OpenModal(D0105, "e2")
  \/ \E f \in RepositoryForms : EditInput(f)
  \/ TimerFire(TRUE)
  \/ \E data \in RepositorySnapshots, mode \in {"merge", "overwrite"} :
       ImportData(data, mode, TRUE, TRUE)

SpecStamps == Init /\ [][NextStamps]_vars

\* the editor and its debounced auto-save under a running clock
NextAutoSave ==
  \/ Tick
  \/ \E d \in EditorDates, i \in EntryIds : OpenModal(d, i)
  \/ \E f \in EditorForms : EditInput(f)
  \/ DoTimerFire
  \/ AppCloseModal
  \/ \E f \in EditorForms, ok \in BOOLEAN : SaveDiary(f, ok)
  \/ DoDeleteDiary

SpecAutoSave == Init /\ [][NextAutoSave]_vars

\* the event loop runs the callback of a pending timeout
SpecAutoSaveFair == SpecAutoSave /\ WF_vars(DoTimerFire)

\* the calendar on its own, loaded on the 15th of a month of a common year,
\* a leap year and the two kinds of century year; one step of navigation
\* from the start months shows every month of the year
StartYears == {1900, 2000, 2023, 2024}
StartMonths == {0, 3, 6, 9}

InitCalendar ==
  /\ lsEntries = None
  /\ lsTags = None
  /\ now = 1
  /\ currentFilters = EmptyFilters
  /\ filterDom = [opts |-> {}, sel |-> {}]
  /\ autoSaveTimer = <<>>
  /\ burst = <<>>
  /\ modal = ClosedModal
  /\ currentImages = <<>>
  /\ uploads = <<>>
  /\ \E year \in StartYears, month \in StartMonths : calendar = CalendarAt(year, month, 15)
  /\ detached = {}
  /\ last = [op |-> "render", grid |-> renderDays(calendar)]

NextCalendar ==
  \/ GoToPrevMonth
  \/ GoToNextMonth
  \/ DoGoToToday
  \/ DoSelectDate

SpecCalendar == InitCalendar /\ [][NextCalendar]_vars

\* the calendar over a store that changes: entries on dates the grids of
\* December 2023 to February 2024 show, carrying four tag ids of which two
\* were never created (or were deleted), the same two ids twice, or no tag
MarkForms ==
  { [id |-> "e1", title |-> <<"A">>, content |-> <<>>,
     tags |-> <<"T2", "T8", "T9", "T1">>, images |-> <<>>],
    [id |-> "e2", title |-> <<"b">>, content |-> <<>>,
     tags |-> <<"T2", "T1", "T2", "T1">>, images |-> <<>>],
    [id |-> "e1", title |-> <<"a">>, content |-> <<>>,
     tags |-> <<>>, images |-> <<>>] }

MarkDates == {D1231, D0120}
TravelTag == [name |-> "Travail", color |-> "#c2"]

NextMarks ==
  \/ \E f \in MarkForms, d \in MarkDates : DiarySave(MkEntry(f, d, now, now), TRUE)
  \/ \E d \in MarkDates : DeleteEntry(d, TRUE)
  \/ TagsCreate("T1", EditorTag, TRUE)
  \/ TagsCreate("T2", TravelTag, TRUE)
  \/ \E i \in TagIds : StorageDeleteTag(i, TRUE)
  \/ Refresh
  \/ GoToPrevMonth
  \/ GoToNextMonth

SpecMarks == Init /\ [][NextMarks]_vars

\* the image list of the editor: an entry with nine images saved earlier,
\* a backup whose entry has eleven, uploads, removals and the explicit save
ImageForm(n) ==
  [id |-> "e1", title |-> <<"A">>, content |-> <<>>, tags |-> <<>>,
   images |-> Images(n)]
ImageSnapshot ==
  [hasEntries |-> TRUE, hasTags |-> TRUE,
   entries |-> <<Pair(MkEntry(ImageForm(MAX_IMAGES + 1), D0105, 1, 1))>>,
   tags |-> <<>>]

NextImages ==
  \/ DiarySave(MkEntry(ImageForm(MAX_IMAGES - 1), D0105, now, now), TRUE)
  \/ ImportData(ImageSnapshot, "merge", TRUE, TRUE)
  \/ OpenModal(D0105, "e2")
  \/ DoProcessImagesStart
  \/ FetchRandomDogStart
  \/ DoAddImages
  \/ DoRemoveImage
  \/ \E f \in ImageEditorForms : SaveDiary(f, TRUE)

SpecImages == Init /\ [][NextImages]_vars

\* the explicit save: forms that are blank, blank but for a tag, or titled;
\* an entry stored with one image, the image's removal in the editor, the
\* auto-save timer and a medium that may reject the write
SaveForms ==
  EditorForms \cup {[id |-> "e2", title |-> <<" ">>, content |-> <<" ">>,
                     tags |-> <<"T1">>, images |-> <<>>]}

NextSave ==
  \/ \E d \in EditorDates, i \in EntryIds : OpenModal(d, i)
  \/ \E f \in SaveForms : EditInput(f)
  \/ DoTimerFire
  \/ AppCloseModal
  \/ \E f \in SaveForms, ok \in BOOLEAN : SaveDiary(f, ok)
  \/ TagsCreate("T1", EditorTag, TRUE)
  \/ DiarySave(MkEntry(ImageForm(1), D0105, now, now), TRUE)
  \/ RemoveImage(0)

SpecSave == Init /\ [][NextSave]_vars

\* the repository calls on their own: saves and deletions of three dates
\* next to tags that some entries reference and some do not
FrameForms == {f \in FormStates : f.tags # <<>>}

NextFrame ==
  \/ \E f \in FrameForms, d \in EntryDates, ok \in BOOLEAN :
       StorageSaveEntry(MkEntry(f, d, now, now), ok)
  \/ DoDeleteEntry
  \/ \E i \in TagIds : TagsCreate(i, EditorTag, TRUE)
  \/ DoTagsRemove

SpecFrame == Init /\ [][NextFrame]_vars

\* the backup file: the snapshot exportData returned is imported back into
\* the store it was taken from, and a snapshot that was imported is
\* imported once more
ImportExported(mode, ok1, ok2) ==
  /\ last.op = "exportData"
  /\ ImportData(last.ret, mode, ok1, ok2)
ImportAgain(ok1, ok2) ==
  /\ last.op = "importData"
  /\ ImportData(last.data, "merge", ok1, ok2)

NextRoundTrip ==
  \/ \E f \in FrameForms, d \in EntryDates :
       DiarySave(MkEntry(f, d, now, now), TRUE)
  \/ \E d \in EntryDates : DeleteEntry(d, TRUE)
  \/ \E i \in TagIds : TagsCreate(i, EditorTag, TRUE)
  \/ \E data \in Snapshots, mode \in {"merge", "overwrite"} :
       ImportData(data, mode, TRUE, TRUE)
  \/ ExportData
  \/ \E mode \in {"merge", "overwrite"}, ok1, ok2 \in BOOLEAN :
       ImportExported(mode, ok1, ok2)
  \/ \E ok1, ok2 \in BOOLEAN : ImportAgain(ok1, ok2)

SpecRoundTrip == Init /\ [][NextRoundTrip]_vars

\* the repository over stored text that may stop parsing
NextDamaged ==
  \/ DamageEntries
  \/ DamageTags
  \/ \E f \in EditorForms, d \in {D0105, D0120}, ok \in BOOLEAN :
       DiarySave(MkEntry(f, d, now, now), ok)
  \/ \E d \in {D0105, D0120}, ok \in BOOLEAN : DeleteEntry(d, ok)
  \/ \E d \in {D0105, D0120} : CallGetEntry(d)
  \/ \E i \in TagIds, ok \in BOOLEAN : TagsCreate(i, EditorTag, ok)
  \/ \E g \in {Fields}, k \in Keywords :
       /\ "keyword" \in g
       /\ Search([given |-> g, keyword |-> k, tags |-> <<>>,
                  fromDate |-> <<>>, toDate |-> <<>>])
  \/ ExportData

SpecDamaged == Init /\ [][NextDamaged]_vars

\* ============================================================== properties
Count(doc, k) == Cardinality({i \in 1..Len(doc) : doc[i].key = k})

\* C6: whenever Diary.save(e) returned true, Diary.get(e.date) in the state
\* it leaves returns an entry equal to e in id, date, title, content, tags,
\* images and createdAt, with updatedAt at least the one e came with, and
\* the entries document holds exactly one entry under e.date.
C6_SaveThenGet ==
  (last.op = "Diary.save" /\ last.ret) =>
     LET e == last.entry
         g == getEntry(e.date)
     IN /\ g # <<>>
        /\ g[1].id = e.id
        /\ g[1].date = e.date
        /\ g[1].title = e.title
        /\ g[1].content = e.content
        /\ g[1].tags = e.tags
        /\ g[1].images = e.images
        /\ g[1].createdAt = e.createdAt
        /\ g[1].updatedAt >= e.updatedAt
        /\ Count(getAllEntries, e.date) = 1

\* a successful save over two stored dates that refreshed an older updatedAt
C6_Witness ==
  /\ last.op = "Diary.save"
  /\ last.ret
  /\ Len(getAllEntries) = 2
  /\ getAllEntries[1].key = last.entry.date
  /\ last.entry.updatedAt < getEntry(last.entry.date)[1].updatedAt

\* C8: deleting a target that does not exist returns false and leaves both
\* collections as they were, for Storage.deleteEntry, Storage.deleteTag and
\* Tags.remove alike.
C8_DeleteMissingNoOp ==
  [][ /\ (last'.op = "deleteEntry" /\ ~HasKey(getAllEntries, last'.date)) =>
           /\ last'.ret = FALSE
           /\ getAllEntriesOf(lsEntries') = getAllEntries
           /\ getAllTagsOf(lsTags') = getAllTags
      /\ (last'.op \in {"deleteTag", "Tags.remove"} /\ ~last'.present) =>
           /\ last'.ret = FALSE
           /\ getAllEntriesOf(lsEntries') = getAllEntries
           /\ getAllTagsOf(lsTags') = getAllTags ]_vars

\* the tag sequence a merge must produce, written position by position
RECURSIVE KeepNew(_, _)
KeepNew(incoming, have) ==
  IF incoming = <<>> THEN <<>>
  ELSE IF Head(incoming).id \in have THEN KeepNew(Tail(incoming), have)
  ELSE <<Head(incoming)>> \o KeepNew(Tail(incoming), have)

\* C9: a merge import whose two writes succeed stores, for every snapshot
\* date, the snapshot's entry; for every other stored date the previous
\* entry; and as tags the previous sequence followed by the snapshot tags
\* whose id was not present, existing records untouched.
C9_MergeImport ==
  [][ (/\ last'.op = "importData"
       /\ last'.mode = "merge"
       /\ ValidSnapshot(last'.data)
       /\ last'.w1 /\ last'.w2) =>
        LET old == getAllEntries
            new == getAllEntriesOf(lsEntries')
            inc == last'.data.entries
            oldTags == getAllTags
            newTagSeq == getAllTagsOf(lsTags')
        IN /\ Keys(new) = Keys(old) \cup Keys(inc)
           /\ \A k \in Keys(new) : Count(new, k) = 1
           /\ \A k \in Keys(inc) : Lookup(new, k) = Lookup(inc, k)
           /\ \A k \in Keys(old) \ Keys(inc) : Lookup(new, k) = Lookup(old, k)
           /\ Len(newTagSeq) >= Len(oldTags)
           /\ SubSeq(newTagSeq, 1, Len(oldTags)) = oldTags
           /\ SubSeq(newTagSeq, Len(oldTags) + 1, Len(newTagSeq))
                = KeepNew(last'.data.tags, tagIdsOf(oldTags)) ]_vars

\* a merge that met a stored date and a stored tag id and also brought a new
\* date and a new tag
C9_Witness ==
  /\ last.op = "importData"
  /\ last.mode = "merge"
  /\ last.w1 /\ last.w2
  /\ last.hadDates \cap Keys(last.data.entries) # {}
  /\ Keys(last.data.entries) \ last.hadDates # {}
  /\ last.hadTags \cap tagIdsOf(last.data.tags) # {}
  /\ tagIdsOf(last.data.tags) \ last.hadTags # {}
  /\ \E i \in 1..Len(getAllTags) : \E j \in 1..Len(last.data.tags) :
        /\ getAllTags[i].id = last.data.tags[j].id
        /\ getAllTags[i].name # last.data.tags[j].name

\* C10: after importData(data, 'overwrite') reported success the entries
\* document equals data.entries and the tag sequence equals data.tags.
C10_OverwriteReplaces ==
  (last.op = "importData" /\ last.mode = "overwrite" /\ last.ret) =>
     /\ getAllEntries = last.data.entries
     /\ getAllTags = last.data.tags

StoredTagIds ==
  UNION {Range(getAllEntries[i].val.tags) : i \in 1..Len(getAllEntries)}

\* C7: once Tags.remove(T) has completed with its writes succeeding, and
\* until a new edit, save or import selects T again, T is in no stored
\* entry's tag list and in no record of the tag collection, also when an
\* auto-save scheduled before the removal fires after it.
C7_RemovedTagStaysRemoved ==
  \A t \in detached : t \notin StoredTagIds /\ t \notin tagIdsOf(getAllTags)

\* ------------------------------------------------------ search properties
StoredEntries == Range(ObjectValues(getAllEntries))

DescByDate(r) ==
  \A i \in 1..Len(r), j \in 1..Len(r) : i < j => ~StrLess(r[i].date, r[j].date)
StrictlyDescByDate(r) ==
  \A i \in 1..Len(r), j \in 1..Len(r) : i < j => StrGreater(r[i].date, r[j].date)
NoDuplicates(r) ==
  \A i \in 1..Len(r), j \in 1..Len(r) : i # j => r[i] # r[j]

\* the three criteria as the search contract words them
MatchesKeyword(e, keyword) ==
  \/ keyword = <<>>
  \/ includes(toLowerCase(e.title), toLowerCase(keyword))
  \/ includes(toLowerCase(e.content), toLowerCase(keyword))
MatchesTags(e, tagIds) ==
  tagIds = <<>> \/ Range(e.tags) \cap Range(tagIds) # {}
MatchesDates(e, fromDate, toDate) ==
  /\ fromDate = <<>> \/ ~StrGreater(fromDate, e.date)
  /\ toDate = <<>> \/ ~StrGreater(e.date, toDate)
Matches(e, c) ==
  /\ MatchesKeyword(e, c.keyword)
  /\ MatchesTags(e, c.tags)
  /\ MatchesDates(e, c.fromDate, c.toDate)

\* a criteria object read on its own, an omitted field counting as empty
Alone(filters) == mergeFilters(EmptyFilters, filters)

\* C1: in every reachable state Search.search({}) returns every stored
\* entry, each once, strictly descending by date.
C1_EmptySearchReturnsAll ==
  (last.op = "search" /\ last.filters.given = {}) =>
     /\ Range(last.result) = StoredEntries
     /\ Len(last.result) = Len(getAllEntries)
     /\ StrictlyDescByDate(last.result)

\* C2: the result of Search.search(criteria) is the one the criteria of
\* that call give on the current store, whatever was searched before.
C2_ResultDependsOnCallOnly ==
  last.op = "search" =>
     /\ Range(last.result) = {e \in StoredEntries : Matches(e, Alone(last.filters))}
     /\ NoDuplicates(last.result)
     /\ DescByDate(last.result)

\* C3: with all four fields passed, Search.search returns exactly the stored
\* entries meeting the keyword, tag and date criteria, none twice, in
\* descending date order.
C3_SearchExplicitCriteria ==
  (last.op = "search" /\ last.filters.given = Fields) =>
     /\ Range(last.result) = {e \in StoredEntries : Matches(e, last.filters)}
     /\ NoDuplicates(last.result)
     /\ DescByDate(last.result)

\* a search on all four criteria that kept two entries, reordered them, and
\* whose keyword matches only through the lower-casing
C3_Witness ==
  /\ last.op = "search"
  /\ last.filters.given = Fields
  /\ last.filters.keyword # <<>>
  /\ last.filters.tags # <<>>
  /\ last.filters.fromDate # <<>>
  /\ last.filters.toDate # <<>>
  /\ Len(last.result) = 2
  /\ last.result # ObjectValues(getAllEntries)
  /\ \E i \in 1..2 : ~includes(last.result[i].title, last.filters.keyword)

\* C4: filterByTags with no tag ids returns its input; otherwise it returns,
\* in input order, exactly the entries whose tag list shares an id with the
\* selection, which drops every untagged entry.
C4_FilterByTags ==
  last.op = "filterByTags" =>
     /\ last.tagIds = <<>> => last.result = last.entries
     /\ last.tagIds # <<>> =>
          /\ last.result = SelectSeq(last.entries,
                 LAMBDA e : Range(e.tags) \cap Range(last.tagIds) # {})
          /\ \A i \in 1..Len(last.result) : last.result[i].tags # <<>>

\* two tag ids selected; an entry carrying one of them is kept, an untagged
\* entry in front of it is dropped
C4_Witness ==
  /\ last.op = "filterByTags"
  /\ Len(last.tagIds) = 2
  /\ Len(last.entries) = 2
  /\ last.entries[1].tags = <<>>
  /\ Len(last.entries[2].tags) = 1
  /\ last.result = <<last.entries[2]>>

\* C5: filterByDateRange keeps exactly the entries with fromDate <= date
\* (when fromDate is set) and date <= toDate (when toDate is set).
C5_FilterByDateRange ==
  last.op = "filterByDateRange" =>
     /\ last.result = SelectSeq(last.entries,
            LAMBDA e : /\ last.fromDate # <<>> => localeCompare(last.fromDate, e.date) <= 0
                       /\ last.toDate # <<>> => localeCompare(e.date, last.toDate) <= 0)
     /\ (last.fromDate # <<>> /\ last.toDate = <<>>) =>
           \A i \in 1..Len(last.entries) :
              StrLess(last.entries[i].date, last.fromDate)
                => ~Has(last.result, last.entries[i])

\* only fromDate set: the entry dated fromDate is kept, an earlier one is
\* dropped
C5_Witness ==
  /\ last.op = "filterByDateRange"
  /\ last.fromDate # <<>>
  /\ last.toDate = <<>>
  /\ Len(last.entries) = 2
  /\ \E i \in 1..2 : last.entries[i].date = last.fromDate
  /\ \E i \in 1..2 : StrLess(last.entries[i].date, last.fromDate)
  /\ Len(last.result) = 1

\* ------------------------------------------------------------ error paths
\* C11: when the snapshot lacks the entries field or the tags field,
\* Storage.importData returns false in either mode and writes nothing: both
\* stored documents are the same before and after the call.
C11_InvalidImportWritesNothing ==
  [][ (/\ last'.op = "importData"
       /\ ~last'.data.hasEntries \/ ~last'.data.hasTags) =>
        /\ last'.ret = FALSE
        /\ lsEntries' = lsEntries
        /\ lsTags' = lsTags ]_vars

\* an overwrite import of a snapshot without the entries field, carrying a
\* tag, on a store that holds an entry and a tag
C11_Witness ==
  /\ last.op = "importData"
  /\ last.mode = "overwrite"
  /\ ~last.data.hasEntries
  /\ last.data.tags # <<>>
  /\ ~last.ret
  /\ getAllEntries # <<>>
  /\ getAllTags # <<>>
  /\ getAllTags # last.data.tags

\* C12: when the medium rejects the write, Diary.save (Storage.saveEntry,
\* Storage.set) returns false and the entries document, like the tags
\* document, is exactly what it was before the call.
C12_RejectedWriteLeavesStore ==
  [][ (last'.op = "Diary.save" /\ ~last'.w) =>
        /\ last'.ret = FALSE
        /\ lsEntries' = lsEntries
        /\ lsTags' = lsTags ]_vars

\* a rejected save of an entry whose date already holds a different entry
C12_Witness ==
  /\ last.op = "Diary.save"
  /\ ~last.w
  /\ getEntry(last.entry.date) # <<>>
  /\ getEntry(last.entry.date)[1].title # last.entry.title
  /\ Len(getAllEntries) = 2

\* C14: when Tags.remove(T) has its entries write accepted and its tags
\* write rejected, it returns false, every stored entry is the entry it was
\* with T taken out of its tag list, and the tag document, T's record
\* included, is untouched.
C14_DetachedButTagKept ==
  [][ (last'.op = "Tags.remove" /\ last'.w1 /\ ~last'.w2) =>
        LET old == getAllEntries
            new == getAllEntriesOf(lsEntries')
        IN /\ last'.ret = FALSE
           /\ Len(new) = Len(old)
           /\ \A i \in 1..Len(old) :
                 /\ new[i].key = old[i].key
                 /\ new[i].val = [old[i].val EXCEPT !.tags = Without(@, last'.tag)]
           /\ \A i \in 1..Len(new) : ~Has(new[i].val.tags, last'.tag)
           /\ lsTags' = lsTags ]_vars

\* T was carried by a stored entry next to another tag and had a record: the
\* entry lost T, kept the other tag, and the record is still there
C14_Witness ==
  /\ last.op = "Tags.remove"
  /\ last.updated /\ last.present
  /\ last.w1 /\ ~last.w2
  /\ ~last.ret
  /\ last.tag \in tagIdsOf(getAllTags)
  /\ last.tag \notin StoredTagIds
  /\ StoredTagIds # {}

\* C13: while the stored text of a key does not parse, the key reads as
\* absent (an empty mapping, an empty sequence) and every repository
\* operation completes with the result it has on an empty collection:
\* getEntry null, saveEntry a one-entry document, deleteEntry false and no
\* write, addTag a one-record sequence, search and export nothing.
C13_DamagedTextReadsAsAbsent ==
  [][ /\ lsEntries.kind = "text" =>
           /\ getAllEntries = <<>>
           /\ last'.op = "getEntry" => last'.ret = <<>>
           /\ last'.op = "Diary.save" =>
                IF last'.w
                  THEN lsEntries' = Json(<<Pair([last'.entry EXCEPT !.updatedAt = now])>>)
                  ELSE lsEntries' = lsEntries
           /\ last'.op = "deleteEntry" => ~last'.ret /\ lsEntries' = lsEntries
           /\ last'.op = "search" => last'.result = <<>>
           /\ last'.op = "exportData" => last'.ret.entries = <<>>
      /\ lsTags.kind = "text" =>
           /\ getAllTags = <<>>
           /\ last'.op = "Tags.create" =>
                IF last'.ret
                  THEN /\ lsTags'.kind = "json"
                       /\ Len(lsTags'.val) = 1
                       /\ lsTags'.val[1].id = last'.tag
                  ELSE lsTags' = lsTags
           /\ last'.op = "exportData" => last'.ret.tags = <<>> ]_vars

\* both texts are damaged; deleteEntry was called for a date the damaged
\* text held and answered false
C13_Witness ==
  /\ last.op = "deleteEntry"
  /\ ~last.ret
  /\ lsEntries.kind = "text"
  /\ HasKey(lsEntries.val, last.date)
  /\ lsTags.kind = "text"
  /\ lsTags.val # <<>>

C17_UpdatedAtNeverDecreases ==
  [][ LET old == getAllEntries
          new == getAllEntriesOf(lsEntries')
      IN /\ (last'.op \in {"saveEntry", "Diary.save", "autoSave.fire"} /\ last'.ret) =>
                Lookup(new, last'.entry.date).updatedAt = now
         /\ (last'.op = "importData" /\ last'.ret) =>
                \A d \in Keys(last'.data.entries) : Lookup(new, d).updatedAt = now
         /\ \A d \in Keys(old) \cap Keys(new) :
                Lookup(new, d).updatedAt >= Lookup(old, d).updatedAt ]_vars

C18_OnePendingAutoSave ==
  [][ /\ Len(autoSaveTimer') <= 1
      /\ last'.op = "autoSave" => autoSaveTimer' = <<last'.entry>>
      /\ last'.op = "autoSave.fire" =>
            /\ burst # <<>>
            /\ last'.entry = burst[Len(burst)] ]_vars

\* two autoSave calls with different entries, only the second one pending
C18_Witness ==
  /\ Len(burst) = 2
  /\ burst[1] # burst[2]
  /\ autoSaveTimer = <<burst[2]>>

ZellerFirst(year, month) ==
  LET m == IF month < 2 THEN month + 13 ELSE month + 1
      y == IF month < 2 THEN year - 1 ELSE year
      K == y % 100
      J == y \div 100
      h == (1 + (13 * (m + 1)) \div 5 + K + K \div 4 + J \div 4 + 5 * J) % 7
  IN (h + 6) % 7

MonthLengths(year) ==
  <<31, IF (year % 4 = 0 /\ year % 100 # 0) \/ year % 400 = 0 THEN 29 ELSE 28,
    31, 30, 31, 30, 31, 31, 30, 31, 30, 31>>

\* C20: every rendered grid has 42 cells; with s the weekday of the first
\* (0 = Sunday) and n the length of the month, cells 0..s-1 are other-month
\* cells ending on the last day of the previous month, cells s..s+n-1 are the
\* days 1..n of the month, not marked other-month, and the remaining cells
\* are other-month cells numbered from 1; column 0 is Sunday. February 2024
\* has s = 4 and n = 29.
C20_GridPartition ==
  last.op = "render" =>
  LET g == last.grid
      year == calendar.currentYear
      month == calendar.currentMonth
      s == ZellerFirst(year, month)
      n == MonthLengths(year)[month + 1]
      prevLast == IF month = 0 THEN 31 ELSE MonthLengths(year)[month]
  IN /\ Len(g) = 42
     /\ \A i \in 0..41 :
          /\ g[i + 1].sunday = (i % 7 = 0)
          /\ i < s =>
                /\ g[i + 1].isOtherMonth
                /\ g[i + 1].day = prevLast - (s - 1 - i)
          /\ (s <= i /\ i < s + n) =>
                /\ ~g[i + 1].isOtherMonth
                /\ g[i + 1].day = i - s + 1
          /\ i >= s + n =>
                /\ g[i + 1].isOtherMonth
                /\ g[i + 1].day = i - (s + n) + 1
     /\ (year = 2024 /\ month = 1) =>
          /\ \A i \in 1..4 : g[i].isOtherMonth /\ g[i].day = 27 + i
          /\ \A i \in 5..33 : ~g[i].isOtherMonth /\ g[i].day = i - 4
          /\ \A i \in 34..42 : g[i].isOtherMonth /\ g[i].day = i - 33

\* February 2024 reached by navigation: 31 January in the fourth cell, the
\* 29th in the 33rd, 1 March after it
C20_Witness ==
  /\ last.op = "render"
  /\ calendar.todayString # dateStringOf(2024, 1, 15)
  /\ calendar.currentYear = 2024
  /\ calendar.currentMonth = 1
  /\ last.grid[4].day = 31 /\ last.grid[4].isOtherMonth
  /\ last.grid[5].day = 1 /\ ~last.grid[5].isOtherMonth
  /\ last.grid[33].day = 29
  /\ last.grid[34].day = 1 /\ last.grid[34].isOtherMonth

\* the day number of a date string (Julian day number, Fliegel and Van
\* Flandern), read off the digits of "YYYY-MM-DD"
DayNumber(ds) ==
  LET Y == ds[1] * 1000 + ds[2] * 100 + ds[3] * 10 + ds[4]
      M == ds[6] * 10 + ds[7]
      D == ds[9] * 10 + ds[10]
      a == (14 - M) \div 12
      y == Y + 4800 - a
      m == M + 12 * a - 3
  IN D + (153 * m + 2) \div 5 + 365 * y + y \div 4 - y \div 100 + y \div 400 - 32045

\* "YYYY-MM-DD" written out for a year, a month 1..12 and a day
DateText(Y, M, D) ==
  <<Y \div 1000, (Y \div 100) % 10, (Y \div 10) % 10, Y % 10, Dash,
    M \div 10, M % 10, Dash, D \div 10, D % 10>>

\* C21: in every rendered grid the cells before the first of the month are
\* dated in the previous month (December of year-1 when January is shown),
\* the cells after its last day in the next month (January of year+1 when
\* December is shown), the others in the shown month; the 42 date strings
\* are 42 consecutive calendar dates, hence distinct.
C21_OtherMonthDates ==
  last.op = "render" =>
  LET g == last.grid
      year == calendar.currentYear
      month == calendar.currentMonth
  IN /\ \A i \in 1..42 :
          LET c == g[i]
          IN IF ~c.isOtherMonth
               THEN c.dateString = DateText(year, month + 1, c.day)
             ELSE IF i <= 7
               THEN c.dateString =
                      IF month = 0 THEN DateText(year - 1, 12, c.day)
                      ELSE DateText(year, month, c.day)
               ELSE c.dateString =
                      IF month = 11 THEN DateText(year + 1, 1, c.day)
                      ELSE DateText(year, month + 2, c.day)
     /\ \A i \in 1..41 : DayNumber(g[i + 1].dateString) = DayNumber(g[i].dateString) + 1
     /\ \A i \in 1..42, j \in 1..42 : i # j => g[i].dateString # g[j].dateString

\* December 2023 shown: the grid runs from 26 November 2023 to 6 January 2024
C21_Witness ==
  /\ last.op = "render"
  /\ calendar.currentYear = 2023
  /\ calendar.currentMonth = 11
  /\ last.grid[1].dateString = <<2, 0, 2, 3, Dash, 1, 1, Dash, 2, 6>>
  /\ last.grid[37].dateString = <<2, 0, 2, 4, Dash, 0, 1, Dash, 0, 1>>
  /\ last.grid[42].dateString = <<2, 0, 2, 4, Dash, 0, 1, Dash, 0, 6>>

\* the cells of the last rendered grid that carry a mark
TodayCells == {i \in 1..Len(last.grid) : last.grid[i].today}
SelectedCells == {i \in 1..Len(last.grid) : last.grid[i].selected}

\* C22: in every rendered grid a cell is marked today iff its date string is
\* the today sentinel and selected iff its date string is the selected date;
\* at most one cell carries each mark, and when the sentinel's year and
\* month are the displayed ones exactly one cell, a cell of the month, is
\* marked today.
C22_TodayAndSelectedMarks ==
  last.op = "render" =>
  LET g == last.grid
      shown == DateText(calendar.currentYear, calendar.currentMonth + 1, 1)
  IN /\ \A i \in 1..Len(g) :
          /\ g[i].today = (g[i].dateString = calendar.todayString)
          /\ g[i].selected = (g[i].dateString = calendar.selectedDate)
     /\ Cardinality(TodayCells) <= 1
     /\ Cardinality(SelectedCells) <= 1
     /\ SubSeq(calendar.todayString, 1, 7) = SubSeq(shown, 1, 7) =>
          /\ Cardinality(TodayCells) = 1
          /\ \A i \in TodayCells : ~g[i].isOtherMonth

\* the month of the sentinel is shown, the sentinel's cell is marked today
\* and a cell of an adjacent month is the selected one
C22_Witness ==
  /\ last.op = "render"
  /\ \E i \in TodayCells, j \in SelectedCells : i # j
  /\ \E i \in TodayCells : ~last.grid[i].isOtherMonth
  /\ \E j \in SelectedCells : last.grid[j].isOtherMonth

\* the colours of the ids of a list that name a tag, in the order of the list
RECURSIVE ColoursOf(_)
ColoursOf(ids) ==
  IF ids = <<>> THEN <<>>
  ELSE LET rec == {t \in Range(getAllTags) : t.id = Head(ids)}
       IN (IF rec = {} THEN <<>> ELSE <<(CHOOSE t \in rec : TRUE).color>>)
            \o ColoursOf(Tail(ids))

\* C23: in every rendered grid a cell has the entry indicator iff its date
\* string is a key of the stored entries, and its tag colours are those of
\* the first three ids of that entry's tag list, in the list's order, an id
\* naming no tag giving no colour: at most three, none without an entry.
C23_IndicatorAndTagDots ==
  last.op = "render" =>
    \A i \in 1..Len(last.grid) :
       LET c == last.grid[i]
           stored == {j \in 1..Len(getAllEntries) : getAllEntries[j].key = c.dateString}
       IN /\ c.hasEntry = (stored # {})
          /\ Len(c.tagDots) <= 3
          /\ stored = {} => c.tagDots = <<>>
          /\ \A j \in stored :
                LET tags == getAllEntries[j].val.tags
                IN c.tagDots =
                     ColoursOf(IF Len(tags) > 3 THEN SubSeq(tags, 1, 3) ELSE tags)

\* a grid with a cell whose entry names two tags that exist in first and
\* fourth place and two that do not in between: one colour; and a cell
\* whose entry names existing tags four times: three colours
C23_Witness ==
  /\ last.op = "render"
  /\ \E i \in 1..Len(last.grid) :
        /\ last.grid[i].hasEntry
        /\ Lookup(getAllEntries, last.grid[i].dateString).tags = <<"T2", "T8", "T9", "T1">>
        /\ Len(last.grid[i].tagDots) = 1
        /\ getById("T1") # <<>>
  /\ \E i \in 1..Len(last.grid) :
        /\ Len(last.grid[i].tagDots) = 3
        /\ last.grid[i].tagDots[1] # last.grid[i].tagDots[2]
  /\ \E i \in 1..Len(last.grid) : ~last.grid[i].hasEntry

\* ------------------------------------------------------------------ images
\* C24: the image list of the editor never has more than MAX_IMAGES
\* elements, whatever stored entry was loaded and whatever uploads, also
\* overlapping ones, and removals ran; addImages on a list of MAX_IMAGES or
\* more leaves it as it is; no entry saved from the editor has more than
\* MAX_IMAGES images.
C24_AtMostTenImages ==
  [][ /\ Len(currentImages') <= MAX_IMAGES
      /\ (last'.op = "addImages" /\ Len(currentImages) >= MAX_IMAGES) =>
            currentImages' = currentImages
      /\ last'.op = "saveDiary" => Len(last'.entry.images) <= MAX_IMAGES ]_vars
\* C25: the explicit save never stores an empty entry. When the editor data
\* has an empty title, empty content, no images and no tags, saveDiary
\* leaves no entry written for that date (the one stored before is deleted
\* when the medium accepts the write, and nothing else is put there);
\* otherwise the editor data is stored under its date. Either way no
\* auto-save stays pending.
C25_Blank(entry) ==
  /\ entry.title = <<>>
  /\ entry.content = <<>>
  /\ entry.images = <<>>
  /\ entry.tags = <<>>
C26_NoAutoSaveWhileClosed ==
  [][ last'.op = "autoSave.fire" => modal.open ]_vars

\* C27: Storage.importData returns true only when the imported data was
\* persisted: a true result means both the entries write and the tags write
\* were accepted, and a rejected write gives false.
C27_ImportReportsWrites ==
  [][ last'.op = "importData" =>
        /\ last'.ret => (last'.w1 /\ last'.w2)
        /\ (~last'.w1 \/ ~last'.w2) => ~last'.ret ]_vars

\* C28: Tags.remove never removes a tag record while a stored entry still
\* references the tag: when the write that detaches the tag from the
\* entries is rejected, the tag collection is left alone and the call
\* returns false; whenever the call took the record out of the collection,
\* no stored entry references the tag afterwards.
C28_NoRemovalWhileReferenced ==
  [][ last'.op = "Tags.remove" =>
        /\ (last'.updated /\ ~last'.w1) =>
              /\ tagIdsOf(getAllTagsOf(lsTags')) = tagIdsOf(getAllTags)
              /\ ~last'.ret
        /\ (last'.tag \in tagIdsOf(getAllTags)
              /\ last'.tag \notin tagIdsOf(getAllTagsOf(lsTags'))) =>
              ~updatedBy(getAllEntriesOf(lsEntries'), last'.tag) ]_vars

\* C29: Storage.saveEntry(e) and Storage.deleteEntry(d) change at most the
\* entry stored under that date: the entries of all other dates and the tag
\* collection stay as they were, so two saves of different dates in a row
\* leave both stored. Tags.remove of a tag no entry references does not
\* write the entries document.
C29_OthersUnchanged(before, after, date) ==
  /\ Keys(after) \subseteq Keys(before) \cup {date}
  /\ \A k \in Keys(before) \ {date} :
        HasKey(after, k) /\ Lookup(after, k) = Lookup(before, k)
C29_Frame ==
  [][ /\ last'.op = "saveEntry" =>
           /\ C29_OthersUnchanged(getAllEntries, getAllEntriesOf(lsEntries'),
                                  last'.entry.date)
           /\ lsTags' = lsTags
           /\ (last'.ret /\ last.op = "saveEntry" /\ last.ret) =>
                 {last.entry.date, last'.entry.date}
                    \subseteq Keys(getAllEntriesOf(lsEntries'))
      /\ last'.op = "deleteEntry" =>
           /\ C29_OthersUnchanged(getAllEntries, getAllEntriesOf(lsEntries'),
                                  last'.date)
           /\ lsTags' = lsTags
      /\ (last'.op = "Tags.remove" /\ ~last'.updated) => lsEntries' = lsEntries
    ]_vars
\* a second date was saved next to a stored entry while tags exist
C29_Witness ==
  /\ last.op = "saveEntry"
  /\ last.ret
  /\ Len(getAllEntries) = 2
  /\ getAllEntries[2].key = last.entry.date
  /\ getAllTags # <<>>

\* C30: importing the snapshot that exportData returned back into the same
\* store leaves the entries and the tags as they were, in overwrite mode
\* and in merge mode; and a merge import of a snapshot that was just
\* merged in leaves the store as the first import left it.
C30_RoundTrip ==
  [][ last'.op = "importData" =>
        /\ (last.op = "exportData" /\ last'.data = last.ret) =>
              /\ getAllEntriesOf(lsEntries') = getAllEntries
              /\ getAllTagsOf(lsTags') = getAllTags
        /\ (last.op = "importData" /\ last.mode = "merge" /\ last.ret
              /\ last.w1 /\ last.w2
              /\ last'.mode = "merge" /\ last'.data = last.data) =>
              /\ lsEntries' = lsEntries
              /\ lsTags' = lsTags ]_vars
\* the export of a store with two entries and two tags was written back in
\* overwrite mode
C30_Witness ==
  /\ last.op = "importData"
  /\ last.mode = "overwrite"
  /\ last.w1 /\ last.w2
  /\ "version" \in DOMAIN last.data
  /\ Len(last.data.entries) = 2
  /\ Len(last.data.tags) = 2
  /\ getAllEntries = last.data.entries
  /\ getAllTags = last.data.tags
====
